---- MODULE Spec2Model ----
(***************************************************************************)
(* Model of the jbovlaste XML export reader of src/src/main.rs.            *)
(*                                                                         *)
(* Dictionary::from_reader (lines 33-144) is a hand-written recursive      *)
(* descent over the token cursor hard_xml::XmlReader, a Peekable over the  *)
(* xmlparser tokenizer.  The records NlWord, Word, Keyword, GlossWord and  *)
(* User (lines 146-224) get their from_reader from #[derive(XmlRead)].     *)
(* WordType::from_str is lines 249-271.                                    *)
(*                                                                         *)
(* One action is one call on the reader (one token taken or peeked) with   *)
(* all the code that runs up to the next call on the reader.  The token    *)
(* stream is produced on demand: whenever the reader needs a token the     *)
(* tokenizer either continues the element it has begun or draws the next   *)
(* piece of the document from a bounded pool; at every point the stream    *)
(* may also end or yield a lexical error.                                  *)
(***************************************************************************)
EXTENDS Naturals, Sequences, FiniteSets, TLC

VARIABLES
  tk,                  \* tokenizer: tokens of the piece begun, mode, budgets
  doc,                 \* the document drawn so far (what the text contains)
  peeked,              \* Peekable's one-token buffer
  cur,                 \* the last token consumed from the cursor
  pc,                  \* the reader call from_reader is about to make
  from,                \* line 68
  to,                  \* line 69
  words,               \* lines 96 / 109
  lojban_to_english,   \* line 35
  english_to_lojban,   \* line 36
  stack,               \* frames of the derived record parsers in progress
  skip,                \* read_to_end in progress: tag and depth
  raised,              \* the error the failing step produced
  result,              \* what from_reader returned
  wtIn,                \* strings handed to WordType::from_str
  wtOut                \* what it returned for each

vars == <<tk, doc, peeked, cur, pc, from, to, words, lojban_to_english,
          english_to_lojban, stack, skip, raised, result, wtIn, wtOut>>

-----------------------------------------------------------------------------
(* Bounds of the model.                                                    *)

MaxDirections == 3      \* child elements of dictionary drawn per document
MaxEntries == 2         \* valsi / nlword elements drawn per document
MaxTypeInputs == 2      \* strings converted in one run of SpecWordType

-----------------------------------------------------------------------------
(* Option<T>: None is the empty sequence, Some(x) is <<x>>.                *)

None == <<>>
Some(x) == <<x>>
Last(s) == s[Len(s)]

-----------------------------------------------------------------------------
(* Tokens of xmlparser, as the reader sees them.  a is the tag, the        *)
(* attribute key or the text; b is the attribute value.                    *)

Tok(k, a, b) == [k |-> k, a |-> a, b |-> b]
Declaration == Tok("Declaration", "", "")
Comment == Tok("Comment", "", "")
ElementStart(tag) == Tok("ElementStart", tag, "")
Attribute(key, value) == Tok("Attribute", key, value)
EndOpen == Tok("ElementEnd::Open", "", "")
EndEmpty == Tok("ElementEnd::Empty", "", "")
EndClose(tag) == Tok("ElementEnd::Close", tag, "")
Text(s) == Tok("Text", s, "")
TokError == Tok("Err", "", "")       \* Some(Err(_)): a lexical error
Eof == Tok("None", "", "")           \* the iterator returned None
Nothing == Tok("-", "", "")          \* Peekable holds no token

Attrs(list) == [i \in 1..Len(list) |-> Attribute(list[i][1], list[i][2])]

-----------------------------------------------------------------------------
(* XmlError values.                                                        *)

XmlErr(e, name, field) == [e |-> e, name |-> name, field |-> field]
NoErr == XmlErr("-", "", "")
UnknownField(name, field) == XmlErr("UnknownField", name, field)
MissingField(name, field) == XmlErr("MissingField", name, field)
UnexpectedEof == XmlErr("UnexpectedEof", "", "")
UnexpectedToken(t) == XmlErr("UnexpectedToken", t.k, t.a)
TagMismatch(expected, found) == XmlErr("TagMismatch", expected, found)
ParserError == XmlErr("Parser", "", "")
FromStrError(text) == XmlErr("FromStr", "", text)

-----------------------------------------------------------------------------
(* WordType (lines 226-243) and WordType::from_str (lines 249-271).        *)

WordTypeVariants ==
  {"BuLetteral", "Cmavo", "CmavoCompound", "Cmevla", "ExperimentalCmavo",
   "ExperimentalGismu", "Fuhivla", "Gismu", "Lujvo", "ObsoleteCmavo",
   "ObsoleteCmevla", "ObsoleteFuhivla", "ObsoleteZeiLujvo", "ZeiLujvo"}

Parsed(v) == [ok |-> TRUE, val |-> Some(v), text |-> ""]
Rejected(s) == [ok |-> FALSE, val |-> None, text |-> s]

(* cmevla is given the variant of cmavo.                                   *)
WordType_from_str_typo(s) ==
  CASE s \in {"cmavo", "cmevla"} -> Parsed("Cmavo")
    [] s = "gismu" -> Parsed("Gismu")
    [] OTHER -> Rejected(s)

WordType_from_str(s) ==
  CASE s = "bu-letteral" -> Parsed("BuLetteral")
    [] s = "cmavo" -> Parsed("Cmavo")
    [] s = "cmavo-compound" -> Parsed("CmavoCompound")
    [] s = "cmevla" -> Parsed("Cmevla")
    [] s = "experimental cmavo" -> Parsed("ExperimentalCmavo")
    [] s = "experimental gismu" -> Parsed("ExperimentalGismu")
    [] s = "fu'ivla" -> Parsed("Fuhivla")
    [] s = "gismu" -> Parsed("Gismu")
    [] s = "lujvo" -> Parsed("Lujvo")
    [] s = "obsolete cmavo" -> Parsed("ObsoleteCmavo")
    [] s = "obsolete cmevla" -> Parsed("ObsoleteCmevla")
    [] s = "obsolete fu'ivla" -> Parsed("ObsoleteFuhivla")
    [] s = "obsolete zei-lujvo" -> Parsed("ObsoleteZeiLujvo")
    [] s = "zei-lujvo" -> Parsed("ZeiLujvo")
    [] OTHER -> Rejected(s)

(* u32::from_str on the decimal strings the documents of the model use.    *)
Decimal == [s \in {"0", "1", "2", "3", "42"} |->
              CASE s = "0" -> 0 [] s = "1" -> 1 [] s = "2" -> 2
                [] s = "3" -> 3 [] OTHER -> 42]

u32_from_str(s) ==
  IF s \in DOMAIN Decimal THEN Parsed(Decimal[s]) ELSE Rejected(s)

(* The derive's bool attribute: the words it accepts, else bool::from_str. *)
bool_from_str(s) ==
  IF s \in {"t", "true", "y", "yes", "on", "1"} THEN Parsed(TRUE)
  ELSE IF s \in {"f", "false", "n", "no", "off", "0"} THEN Parsed(FALSE)
  ELSE Rejected(s)

str_from_str(s) == Parsed(s)

-----------------------------------------------------------------------------
(* The record declarations, lines 146-224: per tag the struct's name and   *)
(* its fields in declaration order.  kind: attr, text (flatten_text) or    *)
(* child; card: req, opt, vec or default; ty: the field's value type, for  *)
(* a child the tag of its record.                                          *)

Fld(xml, field, kind, card, ty) ==
  [xml |-> xml, field |-> field, kind |-> kind, card |-> card, ty |-> ty]

NlWord ==
  <<Fld("word", "word", "attr", "req", "str"),
    Fld("sense", "sense", "attr", "opt", "str"),
    Fld("place", "place", "attr", "opt", "u32"),
    Fld("valsi", "valsi", "attr", "req", "str")>>

Word ==
  <<Fld("word", "word", "attr", "req", "str"),
    Fld("type", "ty", "attr", "req", "WordType"),
    Fld("unofficial", "unofficial", "attr", "default", "bool"),
    Fld("rafsi", "rafsi", "text", "vec", "str"),
    Fld("selmaho", "selmaho", "text", "opt", "str"),
    Fld("user", "user", "child", "req", "user"),
    Fld("definition", "definition", "text", "req", "str"),
    Fld("definitionid", "definition_id", "text", "req", "u32"),
    Fld("notes", "notes", "text", "opt", "str"),
    Fld("glossword", "glosses", "child", "vec", "glossword"),
    Fld("keyword", "keywords", "child", "vec", "keyword")>>

Keyword ==
  <<Fld("word", "word", "attr", "req", "str"),
    Fld("place", "place", "attr", "req", "u32"),
    Fld("sense", "sense", "attr", "opt", "str")>>

GlossWord ==
  <<Fld("word", "word", "attr", "req", "str"),
    Fld("sense", "sense", "attr", "opt", "str")>>

User ==
  <<Fld("username", "username", "text", "req", "str"),
    Fld("realname", "realname", "text", "opt", "str")>>

RecordTags == {"nlword", "valsi", "keyword", "glossword", "user"}

FieldsOf(tag) ==
  CASE tag = "nlword" -> NlWord
    [] tag = "valsi" -> Word
    [] tag = "keyword" -> Keyword
    [] tag = "glossword" -> GlossWord
    [] tag = "user" -> User

(* The record is named by its tag.                                        *)
TagName(tag) == tag

(* stringify!(#ele_name): the name of the struct the derive is on.         *)
StructName(tag) ==
  CASE tag = "nlword" -> "NlWord"
    [] tag = "valsi" -> "Word"
    [] tag = "keyword" -> "Keyword"
    [] tag = "glossword" -> "GlossWord"
    [] tag = "user" -> "User"

FieldNames(tag) == {FieldsOf(tag)[i].field : i \in 1..Len(FieldsOf(tag))}

(* The declared field an attribute key or a child tag belongs to, if any.  *)
Declared(tag, kinds, xml) ==
  {i \in 1..Len(FieldsOf(tag)) :
     FieldsOf(tag)[i].kind \in kinds /\ FieldsOf(tag)[i].xml = xml}

FieldOf(tag, kinds, xml) ==
  FieldsOf(tag)[CHOOSE i \in Declared(tag, kinds, xml) : TRUE]

(* The value conversion the derive applies to raw attribute or text.       *)
Convert(ty, raw) ==
  CASE ty = "u32" -> u32_from_str(raw)
    [] ty = "bool" -> bool_from_str(raw)
    [] ty = "WordType" -> WordType_from_str(raw)
    [] OTHER -> str_from_str(raw)

(* A frame of a derived from_reader: its locals, all unset at the start.   *)
Frame(tag) ==
  [tag |-> tag, vals |-> [f \in FieldNames(tag) |-> None],
   at |-> "", text |-> None]

(* Storing a parsed value: a Vec field pushes, any other is overwritten.   *)
Store(frame, fld, v) ==
  [frame EXCEPT !.vals[fld.field] =
     IF fld.card = "vec" THEN Append(@, v) ELSE Some(v)]

(* The struct literal at the end of the derived from_reader: the first     *)
(* required field still unset is the MissingField reported.                *)
Unset(frame) ==
  {i \in 1..Len(FieldsOf(frame.tag)) :
     /\ FieldsOf(frame.tag)[i].card = "req"
     /\ frame.vals[FieldsOf(frame.tag)[i].field] = None}

FirstUnset(frame) ==
  CHOOSE i \in Unset(frame) : \A j \in Unset(frame) : i <= j

FieldCard(tag, f) ==
  FieldsOf(tag)[CHOOSE i \in 1..Len(FieldsOf(tag)) :
                   FieldsOf(tag)[i].field = f].card

(* A required field that was not seen is left empty.                       *)
BuildFilled(frame) ==
  [err |-> NoErr,
   val |-> Some([f \in FieldNames(frame.tag) |->
            CASE FieldCard(frame.tag, f) = "req" ->
                   IF frame.vals[f] = None THEN "" ELSE frame.vals[f][1]
              [] FieldCard(frame.tag, f) = "default" ->
                   IF frame.vals[f] = None THEN FALSE ELSE frame.vals[f][1]
              [] OTHER -> frame.vals[f]])]

Build(frame) ==
  IF Unset(frame) # {}
  THEN [err |-> MissingField(StructName(frame.tag),
                             FieldsOf(frame.tag)[FirstUnset(frame)].field),
        val |-> None]
  ELSE [err |-> NoErr,
        val |-> Some([f \in FieldNames(frame.tag) |->
                 CASE FieldCard(frame.tag, f) = "req" -> frame.vals[f][1]
                   [] FieldCard(frame.tag, f) = "default" ->
                        IF frame.vals[f] = None THEN FALSE ELSE frame.vals[f][1]
                   [] OTHER -> frame.vals[f]])]

-----------------------------------------------------------------------------
(* The documents of the model, as token sequences of the schema's pieces.  *)

Flat(tag, text) == <<ElementStart(tag), EndOpen, Text(text), EndClose(tag)>>

UserOf(name) ==
  <<ElementStart("user"), EndOpen>> \o Flat("username", name)
    \o <<EndClose("user")>>

ValsiKlama ==
  <<ElementStart("valsi"), Attribute("word", "klama"),
    Attribute("type", "gismu"), EndOpen>>
    \o UserOf("mupli") \o Flat("definition", "x1 comes")
    \o Flat("definitionid", "1") \o <<EndClose("valsi")>>

ValsiBroda ==
  <<ElementStart("valsi"), Attribute("unofficial", "true"),
    Attribute("type", "experimental gismu"), Attribute("word", "broda"),
    EndOpen>>
    \o Flat("rafsi", "rod") \o Flat("definition", "x1 is a thing")
    \o <<ElementStart("user"), EndOpen>> \o Flat("username", "mupli")
    \o <<EndClose("user")>>
    \o Flat("definitionid", "42")
    \o <<ElementStart("keyword"), Attribute("word", "thing"),
         Attribute("place", "1"), EndEmpty, EndClose("valsi")>>

ValsiBadType ==
  <<ElementStart("valsi"), Attribute("word", "klama"),
    Attribute("type", "not-a-type"), EndEmpty>>

ValsiUnknownAttr ==
  <<ElementStart("valsi"), Attribute("foo", "bar"), EndEmpty>>

ValsiNoDefinitionId ==
  <<ElementStart("valsi"), Attribute("word", "klama"),
    Attribute("type", "gismu"), EndOpen>>
    \o UserOf("mupli") \o Flat("definition", "x1 comes")
    \o <<EndClose("valsi")>>

NlGo ==
  <<ElementStart("nlword"), Attribute("word", "go"),
    Attribute("valsi", "klama"), EndEmpty>>

NlThing ==
  <<ElementStart("nlword"), Attribute("word", "thing"),
    Attribute("sense", "object"), Attribute("place", "1"),
    Attribute("valsi", "broda"), EndOpen, EndClose("nlword")>>

(* word is given twice.                                                    *)
NlTwoWords ==
  <<ElementStart("nlword"), Attribute("word", "go"),
    Attribute("word", "went"), Attribute("valsi", "klama"), EndEmpty>>

NlNoValsi == <<ElementStart("nlword"), Attribute("word", "go"), EndEmpty>>

NlBadPlace ==
  <<ElementStart("nlword"), Attribute("word", "go"),
    Attribute("place", "x1"), Attribute("valsi", "klama"), EndEmpty>>

Foo == <<ElementStart("foo"), EndEmpty>>

(* Elements with an attribute or a child that no record declares: the     *)
(* element itself, or the first child of a valsi.  The piece ends with    *)
(* the offending attribute or child.                                      *)
Inside(piece) == <<ElementStart("valsi"), EndOpen>> \o piece
BadAttr(tag) == <<ElementStart(tag), Attribute("foo", "bar"), EndEmpty>>
BadChild(tag) == <<ElementStart(tag), EndOpen, ElementStart("foo"), EndEmpty>>

UnknownPool ==
  {BadAttr("nlword"), BadChild("valsi"), BadChild("nlword")}
    \cup {Inside(BadAttr(t)) : t \in {"user", "keyword", "glossword"}}
    \cup {Inside(BadChild(t)) : t \in {"user", "keyword", "glossword"}}

(* Elements that close with a required field not given: the element       *)
(* itself, or the first child of a valsi.                                  *)
Bare(tag) == <<ElementStart(tag), EndEmpty>>

ValsiWordOnly ==
  <<ElementStart("valsi"), Attribute("word", "klama"), EndEmpty>>

ValsiNoUser ==
  <<ElementStart("valsi"), Attribute("word", "klama"),
    Attribute("type", "gismu"), EndEmpty>>

ValsiNoDefinition ==
  <<ElementStart("valsi"), Attribute("word", "klama"),
    Attribute("type", "gismu"), EndOpen>>
    \o UserOf("mupli") \o <<EndClose("valsi")>>

KeywordNoPlace ==
  Inside(<<ElementStart("keyword"), Attribute("word", "thing"), EndEmpty>>)

MissingPool ==
  {Bare("valsi"), ValsiWordOnly, ValsiNoUser, ValsiNoDefinition,
   Bare("nlword"), Inside(Bare("keyword")), KeywordNoPlace,
   Inside(Bare("glossword")), Inside(Bare("user"))}

(* valsi and nlword elements that follow the schema of the export.         *)
SchemaValsi == {ValsiKlama, ValsiBroda}
SchemaNlword == {NlGo, NlThing}

(* What a direction element may contain in the model.                      *)
EntryPool ==
  SchemaValsi \cup SchemaNlword
    \cup {ValsiBadType, ValsiUnknownAttr, ValsiNoDefinitionId,
          NlTwoWords, NlNoValsi, NlBadPlace, Foo}
    \cup UnknownPool \cup MissingPool

(* Child elements of dictionary that are not direction.                    *)
StrayPool == {Foo, NlGo}

(* Start tags of direction: the attribute list and how the tag ends.       *)
Lojban2English == << <<"from", "lojban">>, <<"to", "English">> >>
English2Lojban == << <<"from", "English">>, <<"to", "lojban">> >>
English2English == << <<"from", "English">>, <<"to", "English">> >>

DirectionHeads ==
  {<<Lojban2English, EndOpen>>,
   <<English2Lojban, EndOpen>>,
   <<English2English, EndOpen>>,
   << << <<"from", "Lojban">>, <<"to", "english">> >>, EndOpen>>,
   << << <<"from", "lojban">> >>, EndOpen>>,
   << << <<"to", "lojban">> >>, EndOpen>>,
   << << >>, EndOpen>>,
   << << <<"from", "lojban">>, <<"to", "English">>, <<"lang", "en">> >>,
      EndOpen>>,
   << << <<"lang", "en">>, <<"from", "English">>, <<"to", "English">> >>,
      EndOpen>>,
   <<Lojban2English, EndEmpty>>,
   <<English2English, EndEmpty>>,
   << << >>, EndEmpty>>}

(* Other spellings of an accepted start tag, drawn for the first child of  *)
(* dictionary: to before from, and from given twice.                       *)
FirstDirectionHeads ==
  {<< << <<"to", "English">>, <<"from", "lojban">> >>, EndOpen>>,
   << << <<"from", "English">>, <<"from", "lojban">>, <<"to", "English">> >>,
      EndOpen>>}

(* Attribute lists of the dictionary start tag.                            *)
DictionaryAttrs ==
  {<< >>, << <<"lang", "en">> >>,
   << <<"version", "1">>, <<"lang", "en">> >>}

StartTagEnds == {EndOpen, EndEmpty}

(* A root element that is not dictionary, skipped by read_to_end.          *)
OtherRoots ==
  {<<ElementStart("export"), EndEmpty>>,
   <<ElementStart("export"), Attribute("lang", "en"), EndOpen,
     ElementStart("export"), EndOpen, EndClose("export"),
     ElementStart("dictionary"), EndEmpty, EndClose("export")>>}

-----------------------------------------------------------------------------
(* The tokenizer.  tk.pending are the tokens left of the piece begun;      *)
(* tk.mode is where in the document the next piece starts; doc records     *)
(* the document the pieces make up.  doc.wf is FALSE once the stream broke *)
(* off, hit a lexical error or closed an element with the wrong tag.       *)

Kid(tag, attrs, empty) ==
  [tag |-> tag, attrs |-> attrs, empty |-> empty, entries |-> <<>>,
   closed |-> empty]

Delivery(t, newtk, newdoc) == [tok |-> t, tk |-> newtk, doc |-> newdoc]

(* Begin the piece `piece`: its first token is delivered now.              *)
Begin(piece, mode, newdoc) ==
  Delivery(Head(piece), [tk EXCEPT !.pending = Tail(piece), !.mode = mode],
           newdoc)

DrawProlog ==
  (IF tk.mode = "prolog"
   THEN {Begin(<<Declaration>>, "misc", doc)} ELSE {})
  \cup {Begin(<<ElementStart("dictionary")>> \o Attrs(a) \o <<e>>,
              IF e = EndEmpty THEN "epilog" ELSE "dictionary",
              [doc EXCEPT !.root = "dictionary", !.dattrs = a,
                          !.dempty = (e = EndEmpty)]) :
          a \in DictionaryAttrs, e \in StartTagEnds}
  \cup {Begin(r, "epilog", [doc EXCEPT !.root = "export"]) : r \in OtherRoots}

(* White space is drawn where the content of an element begins.           *)
DrawInDictionary ==
  {Begin(<<EndClose("dictionary")>>, "epilog", [doc EXCEPT !.closed = TRUE]),
   Begin(<<EndClose("direction")>>, "epilog", [doc EXCEPT !.wf = FALSE])}
  \cup (IF doc.kids = <<>> /\ cur.k # "Text"
        THEN {Begin(<<Text(" ")>>, "dictionary", doc)} ELSE {})
  \cup (IF Len(doc.kids) < MaxDirections
        THEN {Begin(<<ElementStart("direction")>> \o Attrs(h[1]) \o <<h[2]>>,
                    IF h[2] = EndEmpty THEN "dictionary" ELSE "direction",
                    [doc EXCEPT !.kids =
                       Append(@, Kid("direction", h[1], h[2] = EndEmpty))]) :
                h \in DirectionHeads \cup
                      (IF doc.kids = <<>> THEN FirstDirectionHeads ELSE {})}
             \cup {Begin(c, "dictionary",
                         [doc EXCEPT !.kids =
                            Append(@, Kid(c[1].a, <<>>, TRUE))]) :
                     c \in StrayPool}
        ELSE {})

DrawInDirection ==
  {Begin(<<EndClose("direction")>>, "dictionary",
         [doc EXCEPT !.kids[Len(doc.kids)].closed = TRUE]),
   Begin(<<EndClose("dictionary")>>, "epilog", [doc EXCEPT !.wf = FALSE])}
  \cup (IF Last(doc.kids).entries = <<>> /\ cur.k # "Text"
        THEN {Begin(<<Text(" ")>>, "direction", doc)} ELSE {})
  \cup (IF tk.entries < MaxEntries
        THEN {Delivery(Head(c),
                       [tk EXCEPT !.pending = Tail(c),
                                  !.entries = @ + 1],
                       [doc EXCEPT !.kids[Len(doc.kids)].entries =
                          Append(@, c)]) :
                c \in EntryPool}
        ELSE {})

Draw ==
  CASE tk.mode \in {"prolog", "misc"} -> DrawProlog
    [] tk.mode = "dictionary" -> DrawInDictionary
    [] tk.mode = "direction" -> DrawInDirection
    [] OTHER -> {}

(* The stream breaks off (None) or the text is malformed here (Err); the   *)
(* tokenizer yields None ever after.                                       *)
Broken ==
  {Delivery(t, [tk EXCEPT !.pending = <<>>, !.mode = "end"],
            [doc EXCEPT !.wf = FALSE]) : t \in {Eof, TokError}}

(* What Tokenizer::next can return in the current state.                   *)
Fetch ==
  IF tk.mode = "end" THEN {Delivery(Eof, tk, doc)}
  ELSE IF tk.mode = "epilog" /\ tk.pending = <<>>
  THEN {Delivery(Eof, [tk EXCEPT !.mode = "end"], doc)}
  ELSE Broken \cup
       (IF tk.pending # <<>>
        THEN {Delivery(Head(tk.pending),
                       [tk EXCEPT !.pending = Tail(@)], doc)}
        ELSE Draw)

-----------------------------------------------------------------------------
(* hard_xml::XmlReader, as from_reader uses it: what one turn of each      *)
(* method's loop does with the token t it gets.  r is the outcome,         *)
(* consume tells whether the token was taken off the cursor (next) or      *)
(* left in the Peekable (peek only).                                       *)

Out(r, consume, err, a, b) ==
  [r |-> r, consume |-> consume, err |-> err, a |-> a, b |-> b]

(* find_attribute takes the end of the start tag off the cursor.           *)
FindAttributeTakingEnd(t) ==
  CASE t.k = "Attribute" -> Out("some", TRUE, NoErr, t.a, t.b)
    [] t.k \in {"ElementEnd::Open", "ElementEnd::Empty"} ->
         Out("none", TRUE, NoErr, "", "")
    [] t.k = "Err" -> Out("err", TRUE, ParserError, "", "")
    [] t.k = "None" -> Out("err", FALSE, UnexpectedEof, "", "")
    [] OTHER -> Out("err", FALSE, UnexpectedToken(t), "", "")

(* reader.find_attribute(), called at lines 40 and 70.                     *)
FindAttribute(t) ==
  CASE t.k = "Attribute" -> Out("some", TRUE, NoErr, t.a, t.b)
    [] t.k \in {"ElementEnd::Open", "ElementEnd::Empty"} ->
         Out("none", FALSE, NoErr, "", "")
    [] t.k = "Err" -> Out("err", TRUE, ParserError, "", "")
    [] t.k = "None" -> Out("err", FALSE, UnexpectedEof, "", "")
    [] OTHER -> Out("err", FALSE, UnexpectedToken(t), "", "")

(* The close of dictionary is seen but left on the cursor.                 *)
FindElementStartLeavingClose(t, end_tag) ==
  CASE t.k = "ElementStart" -> Out("some", FALSE, NoErr, t.a, "")
    [] t.k = "ElementEnd::Close" ->
         IF t.a = end_tag
         THEN Out("none", end_tag # "dictionary", NoErr, "", "")
         ELSE Out("err", FALSE, TagMismatch(end_tag, t.a), "", "")
    [] t.k \in {"ElementEnd::Open", "ElementEnd::Empty", "Attribute"} ->
         Out("err", FALSE, UnexpectedToken(t), "", "")
    [] t.k = "Err" -> Out("err", TRUE, ParserError, "", "")
    [] t.k = "None" -> Out("err", FALSE, UnexpectedEof, "", "")
    [] OTHER -> Out("again", TRUE, NoErr, "", "")

(* reader.find_element_start(Some(end_tag)), lines 58, 97 and 110.         *)
FindElementStart(t, end_tag) ==
  CASE t.k = "ElementStart" -> Out("some", FALSE, NoErr, t.a, "")
    [] t.k = "ElementEnd::Close" ->
         IF t.a = end_tag THEN Out("none", TRUE, NoErr, "", "")
         ELSE Out("err", FALSE, TagMismatch(end_tag, t.a), "", "")
    [] t.k \in {"ElementEnd::Open", "ElementEnd::Empty", "Attribute"} ->
         Out("err", FALSE, UnexpectedToken(t), "", "")
    [] t.k = "Err" -> Out("err", TRUE, ParserError, "", "")
    [] t.k = "None" -> Out("err", FALSE, UnexpectedEof, "", "")
    [] OTHER -> Out("again", TRUE, NoErr, "", "")

(* reader.read_till_element_start(tag), lines 38 and 66: an exhausted      *)
(* stream ends its loop with Ok(()).                                       *)
ReadTillElementStart(t, tag) ==
  CASE t.k = "Err" -> Out("err", TRUE, ParserError, "", "")
    [] t.k = "None" -> Out("exhausted", TRUE, NoErr, "", "")
    [] t.k = "ElementStart" ->
         IF t.a = tag THEN Out("found", TRUE, NoErr, "", "")
         ELSE Out("skip", TRUE, NoErr, t.a, "")
    [] t.k \in {"ElementEnd::Open", "ElementEnd::Empty", "ElementEnd::Close",
                "Attribute", "Text"} ->
         Out("err", TRUE, UnexpectedToken(t), "", "")
    [] OTHER -> Out("again", TRUE, NoErr, "", "")

(* reader.read_to_end(tag): the start tag's attributes, then the body.     *)
ReadToEndHead(t) ==
  CASE t.k = "Err" -> Out("err", TRUE, ParserError, "", "")
    [] t.k = "ElementEnd::Empty" -> Out("return", TRUE, NoErr, "", "")
    [] t.k = "ElementEnd::Open" -> Out("body", TRUE, NoErr, "", "")
    [] t.k = "Attribute" -> Out("again", TRUE, NoErr, "", "")
    [] t.k = "None" -> Out("err", TRUE, UnexpectedEof, "", "")
    [] OTHER -> Out("err", TRUE, UnexpectedToken(t), "", "")

ReadToEndBody(t, tag) ==
  CASE t.k = "Err" -> Out("err", TRUE, ParserError, "", "")
    [] t.k = "None" -> Out("err", TRUE, UnexpectedEof, "", "")
    [] t.k = "ElementStart" /\ t.a = tag -> Out("deeper", TRUE, NoErr, "", "")
    [] t.k = "ElementEnd::Close" /\ t.a = tag ->
         Out("shallower", TRUE, NoErr, "", "")
    [] OTHER -> Out("again", TRUE, NoErr, "", "")

(* reader.read_text(end_tag), the body of a flatten_text child.            *)
ReadText(t, end_tag) ==
  CASE t.k = "Err" -> Out("err", TRUE, ParserError, "", "")
    [] t.k \in {"ElementEnd::Open", "Attribute"} ->
         Out("again", TRUE, NoErr, "", "")
    [] t.k = "Text" -> Out("text", TRUE, NoErr, t.a, "")
    [] t.k = "ElementEnd::Close" ->
         IF t.a = end_tag THEN Out("break", TRUE, NoErr, "", "")
         ELSE Out("err", TRUE, TagMismatch(end_tag, t.a), "", "")
    [] t.k = "None" -> Out("break", TRUE, NoErr, "", "")
    [] OTHER -> Out("err", TRUE, UnexpectedToken(t), "", "")

(* The self-closing end is taken for an opening one.                       *)
NextUnwrapAnyEnd(t) ==
  CASE t.k = "None" -> Out("panic", TRUE, NoErr, "", "")
    [] t.k = "Err" -> Out("err", TRUE, ParserError, "", "")
    [] OTHER -> Out("open", TRUE, NoErr, "", "")

(* reader.next().unwrap()? at lines 50 and 86: unwrap panics on None.      *)
NextUnwrap(t) ==
  CASE t.k = "None" -> Out("panic", TRUE, NoErr, "", "")
    [] t.k = "Err" -> Out("err", TRUE, ParserError, "", "")
    [] t.k = "ElementEnd::Empty" -> Out("empty", TRUE, NoErr, "", "")
    [] OTHER -> Out("open", TRUE, NoErr, "", "")

(* Peekable: peek and next hand out the buffered token if there is one.    *)
Source == IF peeked # Nothing THEN {Delivery(peeked, tk, doc)} ELSE Fetch

Take(f, consume) ==
  /\ tk' = f.tk
  /\ doc' = f.doc
  /\ peeked' = IF consume THEN Nothing ELSE f.tok
  /\ cur' = IF consume /\ f.tok # Eof THEN f.tok ELSE cur

-----------------------------------------------------------------------------
(* Results of from_reader, and how a step ends.                            *)

NoResult == [kind |-> "none", l2e |-> <<>>, e2l |-> <<>>, err |-> NoErr]
Ok(l2e, e2l) == [kind |-> "ok", l2e |-> l2e, e2l |-> e2l, err |-> NoErr]
Err(e) == [kind |-> "err", l2e |-> <<>>, e2l |-> <<>>, err |-> e]
Panicked == [kind |-> "panic", l2e |-> <<>>, e2l |-> <<>>, err |-> NoErr]

(* The error loses what it named on the way up.                           *)
PropagateLossy(e) == XmlErr(e.e, "", "")

(* The ? operator: the error is returned as it is.                         *)
Propagate(e) == e

Goto(p) == pc' = p /\ UNCHANGED <<raised, result>>
Throw(e) == pc' = "done" /\ raised' = e /\ result' = Err(Propagate(e))
Panic == pc' = "done" /\ result' = Panicked /\ UNCHANGED raised

locals == <<from, to, words, lojban_to_english, english_to_lojban>>
other == <<wtIn, wtOut>>

-----------------------------------------------------------------------------
(* Dictionary::from_reader, lines 34-143.                                  *)

(* One turn of read_till_element_start(tag) at control point `at`; an      *)
(* element of another name is skipped with read_to_end.                    *)
ReadTill(at, tag, then) ==
  \E f \in Source :
    LET o == ReadTillElementStart(f.tok, tag) IN
    /\ Take(f, o.consume)
    /\ CASE o.r = "err" -> Throw(o.err) /\ UNCHANGED skip
         [] o.r \in {"found", "exhausted"} -> Goto(then) /\ UNCHANGED skip
         [] o.r = "skip" ->
              /\ Goto("skip_head")
              /\ skip' = [tag |-> o.a, depth |-> 1, ret |-> at]
         [] OTHER -> Goto(at) /\ UNCHANGED skip

(* read_to_end(tag), the start tag of the skipped element.                 *)
SkipHead ==
  /\ pc = "skip_head"
  /\ \E f \in Source :
       LET o == ReadToEndHead(f.tok) IN
       /\ Take(f, o.consume)
       /\ CASE o.r = "err" -> Throw(o.err)
            [] o.r = "return" -> Goto(skip.ret)
            [] o.r = "body" -> Goto("skip_body")
            [] OTHER -> Goto("skip_head")
  /\ UNCHANGED <<locals, stack, skip, other>>

(* read_to_end(tag), the body: until the matching close at depth 0.        *)
SkipBody ==
  /\ pc = "skip_body"
  /\ \E f \in Source :
       LET o == ReadToEndBody(f.tok, skip.tag) IN
       /\ Take(f, o.consume)
       /\ CASE o.r = "err" -> Throw(o.err) /\ UNCHANGED skip
            [] o.r = "deeper" ->
                 Goto("skip_body") /\ skip' = [skip EXCEPT !.depth = @ + 1]
            [] o.r = "shallower" ->
                 IF skip.depth = 1
                 THEN Goto(skip.ret) /\ UNCHANGED skip
                 ELSE Goto("skip_body")
                      /\ skip' = [skip EXCEPT !.depth = @ - 1]
            [] OTHER -> Goto("skip_body") /\ UNCHANGED skip
  /\ UNCHANGED <<locals, stack, other>>

(* Line 38.                                                                *)
DictTill ==
  /\ pc = "dict_till"
  /\ ReadTill("dict_till", "dictionary", "dict_attr")
  /\ UNCHANGED <<locals, stack, other>>

(* The error names the attribute's value.                                  *)
DictionaryAttributeValue(key, value) == UnknownField("Dictionary", value)

(* Lines 41-44: the error for an attribute (key, value) of dictionary.     *)
DictionaryAttribute(key, value) == UnknownField("Dictionary", key)

(* Lines 40-45: any attribute of dictionary is an unknown field.           *)
DictAttr ==
  /\ pc = "dict_attr"
  /\ \E f \in Source :
       LET o == FindAttribute(f.tok) IN
       /\ Take(f, o.consume)
       /\ CASE o.r = "some" -> Throw(DictionaryAttribute(o.a, o.b))
            [] o.r = "none" -> Goto("dict_end")
            [] OTHER -> Throw(o.err)
  /\ UNCHANGED <<locals, stack, skip, other>>

(* Lines 47-56: the end of the dictionary start tag.                       *)
DictEnd ==
  /\ pc = "dict_end"
  /\ \E f \in Source :
       LET o == NextUnwrap(f.tok) IN
       /\ Take(f, o.consume)
       /\ CASE o.r = "panic" -> Panic
            [] o.r = "err" -> Throw(o.err)
            [] o.r = "empty" -> Throw(MissingField("Dictionary", "early end"))
            [] OTHER -> Goto("dict_child")
  /\ UNCHANGED <<locals, stack, skip, other>>

(* foo is let through as if it were direction.                            *)
IsDirectionOrFoo(tag) == tag \in {"direction", "foo"}

(* Line 59.                                                                *)
IsDirection(tag) == tag = "direction"

(* A missing direction defaults to the empty sequence.                     *)
CollectOrDefault(l2e, e2l) ==
  [err |-> NoErr,
   l2e |-> IF l2e = None THEN <<>> ELSE l2e[1],
   e2l |-> IF e2l = None THEN <<>> ELSE e2l[1]]

(* Lines 130-142: both directions are required.                            *)
Collect(l2e, e2l) ==
  IF l2e = None
  THEN [err |-> MissingField("Dictionary", "lojban to english"),
        l2e |-> <<>>, e2l |-> <<>>]
  ELSE IF e2l = None
  THEN [err |-> MissingField("Dictionary", "english to lojban"),
        l2e |-> <<>>, e2l |-> <<>>]
  ELSE [err |-> NoErr, l2e |-> l2e[1], e2l |-> e2l[1]]

(* Lines 58-64 and 130-142: the next child of dictionary, or its close.    *)
DictChild ==
  /\ pc = "dict_child"
  /\ \E f \in Source :
       LET o == FindElementStart(f.tok, "dictionary") IN
       /\ Take(f, o.consume)
       /\ CASE o.r = "some" ->
                 IF IsDirection(o.a) THEN Goto("dir_till")
                 ELSE Throw(UnknownField("Dictionary", o.a))
            [] o.r = "none" ->
                 LET c == Collect(lojban_to_english, english_to_lojban) IN
                 IF c.err # NoErr THEN Throw(c.err)
                 ELSE /\ pc' = "done"
                      /\ result' = Ok(c.l2e, c.e2l)
                      /\ UNCHANGED raised
            [] o.r = "again" -> Goto("dict_child")
            [] OTHER -> Throw(o.err)
  /\ UNCHANGED <<locals, stack, skip, other>>

(* Lines 66-69.                                                            *)
DirTill ==
  /\ pc = "dir_till"
  /\ ReadTill("dir_till", "direction", "dir_attr")
  /\ from' = None
  /\ to' = None
  /\ UNCHANGED <<words, lojban_to_english, english_to_lojban, stack, other>>

(* to is taken only once from has been given.                              *)
MatchKeyInOrder(key, value, f, t) ==
  CASE key = "from" -> [err |-> NoErr, from |-> Some(value), to |-> t]
    [] key = "to" /\ f # None ->
         [err |-> NoErr, from |-> f, to |-> Some(value)]
    [] OTHER -> [err |-> UnknownField("direction", key), from |-> f, to |-> t]

(* The match of lines 71-80 on the key of an attribute of direction.       *)
MatchKey(key, value, f, t) ==
  CASE key = "from" -> [err |-> NoErr, from |-> Some(value), to |-> t]
    [] key = "to" -> [err |-> NoErr, from |-> f, to |-> Some(value)]
    [] OTHER -> [err |-> UnknownField("direction", key), from |-> f, to |-> t]

(* Lines 70-81: from and to in any order, anything else is unknown.        *)
DirAttr ==
  /\ pc = "dir_attr"
  /\ \E f \in Source :
       LET o == FindAttribute(f.tok) IN
       /\ Take(f, o.consume)
       /\ CASE o.r = "some" ->
                 LET m == MatchKey(o.a, o.b, from, to) IN
                 IF m.err # NoErr
                 THEN Throw(m.err) /\ UNCHANGED <<from, to>>
                 ELSE Goto("dir_attr") /\ from' = m.from /\ to' = m.to
            [] o.r = "none" -> Goto("dir_end") /\ UNCHANGED <<from, to>>
            [] OTHER -> Throw(o.err) /\ UNCHANGED <<from, to>>
  /\ UNCHANGED <<words, lojban_to_english, english_to_lojban, stack, skip,
                 other>>

(* The match looks at from alone.                                          *)
DirectionByFrom(f, t) ==
  IF f = Some("lojban") THEN "lojban-to-english"
  ELSE IF f = Some("English") THEN "english-to-lojban"
  ELSE "unknown"

(* The match of line 94 on (from.as_deref(), to.as_deref()).               *)
DirectionOf(f, t) ==
  IF f = Some("lojban") /\ t = Some("English") THEN "lojban-to-english"
  ELSE IF f = Some("English") /\ t = Some("lojban") THEN "english-to-lojban"
  ELSE "unknown"

(* Both directions expect valsi.                                           *)
EntryTagValsi(direction) == "valsi"

(* The child tag each direction expects, lines 98 and 111.                 *)
EntryTag(direction) ==
  IF direction = "lojban-to-english" THEN "valsi" ELSE "nlword"

(* The pair is looked at before the end of the start tag.                  *)
DirectionEndPairFirst(r, f, t) ==
  IF DirectionOf(f, t) = "unknown"
  THEN UnknownField("Dictionary", "unknown direction")
  ELSE IF r = "empty" THEN MissingField("direction", "early end")
  ELSE NoErr

(* A self-closing start tag is taken like an opening one.                  *)
DirectionEndAnyEnd(r, f, t) ==
  IF DirectionOf(f, t) = "unknown"
  THEN UnknownField("Dictionary", "unknown direction")
  ELSE NoErr

(* Lines 83-92 and then 94, 121-126: the self-closing check comes before   *)
(* the match on the pair.                                                  *)
DirectionEnd(r, f, t) ==
  IF r = "empty" THEN MissingField("direction", "early end")
  ELSE IF DirectionOf(f, t) = "unknown"
  THEN UnknownField("Dictionary", "unknown direction")
  ELSE NoErr

(* The words of the direction before are kept.                             *)
KeepWords(old) == old

(* let mut words = Vec::new(), lines 96 and 109.                           *)
NewWords(old) == <<>>

(* Lines 83-96, 108-109 and 121-126: the end of the direction start tag,   *)
(* then the dispatch on the pair.                                          *)
DirEnd ==
  /\ pc = "dir_end"
  /\ \E f \in Source :
       LET o == NextUnwrap(f.tok) IN
       /\ Take(f, o.consume)
       /\ CASE o.r = "panic" -> Panic /\ UNCHANGED words
            [] o.r = "err" -> Throw(o.err) /\ UNCHANGED words
            [] OTHER ->
                 LET e == DirectionEnd(o.r, from, to) IN
                 IF e # NoErr THEN Throw(e) /\ UNCHANGED words
                 ELSE Goto("dir_child") /\ words' = NewWords(words)
  /\ UNCHANGED <<from, to, lojban_to_english, english_to_lojban, stack, skip,
                 other>>

(* Push at the front instead of the back.                                  *)
PushFront(vec, x) == <<x>> \o vec

(* words.push(..), lines 104 and 117.                                      *)
Push(vec, x) == Append(vec, x)

(* A direction without entries leaves the variable as it was.             *)
AssignNonEmpty(old, vec) == IF vec = <<>> THEN old ELSE Some(vec)

(* The finished words are added to what the variable held.                *)
AssignExtend(old, vec) == IF old = None THEN Some(vec) ELSE Some(old[1] \o vec)

(* Lines 106 and 119: the finished words replace what the variable held.   *)
Assign(old, vec) == Some(vec)

(* Lines 97-106 and 110-119: the next entry of the direction, or its       *)
(* close.                                                                  *)
DirChild ==
  /\ pc = "dir_child"
  /\ \E f \in Source :
       LET o == FindElementStart(f.tok, "direction")
           d == DirectionOf(from, to) IN
       /\ Take(f, o.consume)
       /\ CASE o.r = "some" ->
                 IF o.a # EntryTag(d)
                 THEN /\ Throw(MissingField(d, EntryTag(d)))
                      /\ UNCHANGED <<lojban_to_english, english_to_lojban,
                                     stack>>
                 ELSE /\ Goto("rec_till")
                      /\ stack' = <<Frame(EntryTag(d))>>
                      /\ UNCHANGED <<lojban_to_english, english_to_lojban>>
            [] o.r = "none" ->
                 /\ Goto("dict_child")
                 /\ IF d = "lojban-to-english"
                    THEN /\ lojban_to_english' =
                              Assign(lojban_to_english, words)
                         /\ UNCHANGED english_to_lojban
                    ELSE /\ english_to_lojban' =
                              Assign(english_to_lojban, words)
                         /\ UNCHANGED lojban_to_english
                 /\ UNCHANGED stack
            [] o.r = "again" ->
                 /\ Goto("dir_child")
                 /\ UNCHANGED <<lojban_to_english, english_to_lojban, stack>>
            [] OTHER ->
                 /\ Throw(o.err)
                 /\ UNCHANGED <<lojban_to_english, english_to_lojban, stack>>
  /\ UNCHANGED <<from, to, words, skip, other>>

-----------------------------------------------------------------------------
(* The from_reader that #[derive(XmlRead)] generates for the records of    *)
(* lines 146-224, run on the top frame of the stack.                       *)

Top == stack[Len(stack)]
SetTop(frame) == [stack EXCEPT ![Len(stack)] = frame]

(* The record is complete: a missing required field fails the parse;       *)
(* otherwise the value goes to the caller, which is the direction loop     *)
(* (lines 104, 117) or the parent record's child field.                    *)
Return(b) ==
  IF b.err # NoErr
  THEN Throw(b.err) /\ UNCHANGED <<words, stack>>
  ELSE IF Len(stack) = 1
  THEN /\ Goto("dir_child")
       /\ words' = Push(words, b.val[1])
       /\ stack' = <<>>
  ELSE LET parent == stack[Len(stack) - 1]
           fld == FieldOf(parent.tag, {"child"}, Top.tag) IN
       /\ Goto("rec_child")
       /\ stack' = Append(SubSeq(stack, 1, Len(stack) - 2),
                          Store(parent, fld, b.val[1]))
       /\ UNCHANGED words

(* reader.read_till_element_start(tag) of the record.                      *)
RecTill ==
  /\ pc = "rec_till"
  /\ ReadTill("rec_till", Top.tag, "rec_attr")
  /\ UNCHANGED <<locals, stack, other>>

(* The attribute loop: strict(unknown_attribute), typed values.            *)
RecAttr ==
  /\ pc = "rec_attr"
  /\ \E f \in Source :
       LET o == FindAttribute(f.tok) IN
       /\ Take(f, o.consume)
       /\ CASE o.r = "some" ->
                 IF Declared(Top.tag, {"attr"}, o.a) = {}
                 THEN Throw(UnknownField(StructName(Top.tag), o.a))
                      /\ UNCHANGED stack
                 ELSE LET fld == FieldOf(Top.tag, {"attr"}, o.a)
                          v == Convert(fld.ty, o.b) IN
                      IF v.ok
                      THEN Goto("rec_attr")
                           /\ stack' = SetTop(Store(Top, fld, v.val[1]))
                      ELSE Throw(FromStrError(v.text)) /\ UNCHANGED stack
            [] o.r = "none" -> Goto("rec_end") /\ UNCHANGED stack
            [] OTHER -> Throw(o.err) /\ UNCHANGED stack
  /\ UNCHANGED <<locals, skip, other>>

(* The end of the record's start tag: a self-closing element is complete.  *)
RecEnd ==
  /\ pc = "rec_end"
  /\ \E f \in Source :
       LET o == NextUnwrap(f.tok) IN
       /\ Take(f, o.consume)
       /\ CASE o.r = "panic" -> Panic /\ UNCHANGED <<words, stack>>
            [] o.r = "err" -> Throw(o.err) /\ UNCHANGED <<words, stack>>
            [] o.r = "empty" -> Return(Build(Top))
            [] OTHER -> Goto("rec_child") /\ UNCHANGED <<words, stack>>
  /\ UNCHANGED <<from, to, lojban_to_english, english_to_lojban, skip, other>>

(* The child loop: strict(unknown_element); a child record is parsed by    *)
(* its own from_reader, a flatten_text child by read_text.                 *)
RecChild ==
  /\ pc = "rec_child"
  /\ \E f \in Source :
       LET o == FindElementStart(f.tok, Top.tag) IN
       /\ Take(f, o.consume)
       /\ CASE o.r = "some" ->
                 IF Declared(Top.tag, {"text", "child"}, o.a) = {}
                 THEN Throw(UnknownField(StructName(Top.tag), o.a))
                      /\ UNCHANGED <<words, stack>>
                 ELSE IF FieldOf(Top.tag, {"text", "child"}, o.a).kind
                           = "child"
                 THEN /\ Goto("rec_till")
                      /\ stack' = Append(stack, Frame(o.a))
                      /\ UNCHANGED words
                 ELSE /\ Goto("rec_open")
                      /\ stack' = SetTop([Top EXCEPT !.at = o.a,
                                                     !.text = None])
                      /\ UNCHANGED words
            [] o.r = "none" -> Return(Build(Top))
            [] o.r = "again" ->
                 Goto("rec_child") /\ UNCHANGED <<words, stack>>
            [] OTHER -> Throw(o.err) /\ UNCHANGED <<words, stack>>
  /\ UNCHANGED <<from, to, lojban_to_english, english_to_lojban, skip, other>>

(* flatten_text: reader.next() drops the child's start token.              *)
RecOpen ==
  /\ pc = "rec_open"
  /\ \E f \in Source : Take(f, TRUE)
  /\ Goto("rec_text")
  /\ UNCHANGED <<locals, stack, skip, other>>

(* flatten_text: one turn of read_text, then the value's conversion.       *)
RecText ==
  /\ pc = "rec_text"
  /\ \E f \in Source :
       LET o == ReadText(f.tok, Top.at) IN
       /\ Take(f, o.consume)
       /\ CASE o.r = "again" -> Goto("rec_text") /\ UNCHANGED stack
            [] o.r = "text" ->
                 /\ Goto("rec_text")
                 /\ stack' = SetTop([Top EXCEPT !.text = Some(o.a)])
            [] o.r = "break" ->
                 LET fld == FieldOf(Top.tag, {"text"}, Top.at)
                     raw == IF Top.text = None THEN "" ELSE Top.text[1]
                     v == Convert(fld.ty, raw) IN
                 IF v.ok
                 THEN /\ Goto("rec_child")
                      /\ stack' = SetTop([Store(Top, fld, v.val[1])
                                            EXCEPT !.at = "", !.text = None])
                 ELSE Throw(FromStrError(v.text)) /\ UNCHANGED stack
            [] OTHER -> Throw(o.err) /\ UNCHANGED stack
  /\ UNCHANGED <<locals, skip, other>>

-----------------------------------------------------------------------------
(* The parse of one document.                                              *)

NoSkip == [tag |-> "", depth |-> 0, ret |-> ""]

InitReader ==
  /\ tk = [pending |-> <<>>, mode |-> "prolog", entries |-> 0]
  /\ doc = [root |-> "", dattrs |-> <<>>, dempty |-> FALSE, kids |-> <<>>,
            closed |-> FALSE, wf |-> TRUE]
  /\ peeked = Nothing
  /\ cur = Nothing
  /\ from = None
  /\ to = None
  /\ words = <<>>
  /\ lojban_to_english = None
  /\ english_to_lojban = None
  /\ stack = <<>>
  /\ skip = NoSkip
  /\ raised = NoErr
  /\ result = NoResult

Init ==
  /\ InitReader
  /\ pc = "dict_till"
  /\ wtIn = <<>>
  /\ wtOut = <<>>

Next ==
  \/ DictTill
  \/ SkipHead
  \/ SkipBody
  \/ DictAttr
  \/ DictEnd
  \/ DictChild
  \/ DirTill
  \/ DirAttr
  \/ DirEnd
  \/ DirChild
  \/ RecTill
  \/ RecAttr
  \/ RecEnd
  \/ RecChild
  \/ RecOpen
  \/ RecText

Spec == Init /\ [][Next]_vars

-----------------------------------------------------------------------------
(* WordType::from_str on its own: the type attributes of successive valsi  *)
(* elements, each converted by from_str.                                   *)

TypeStrings ==
  {"bu-letteral", "cmavo", "cmavo-compound", "cmevla", "experimental cmavo",
   "experimental gismu", "fu'ivla", "gismu", "lujvo", "obsolete cmavo",
   "obsolete cmevla", "obsolete fu'ivla", "obsolete zei-lujvo", "zei-lujvo",
   "", "Gismu", "GISMU", " gismu", "gismu ", "not-a-type", "fuhivla",
   "experimental-gismu", "zei lujvo", "bu_letteral"}

InitWordType ==
  /\ InitReader
  /\ pc = "from_str"
  /\ wtIn = <<>>
  /\ wtOut = <<>>

FromStr ==
  /\ pc = "from_str"
  /\ Len(wtIn) < MaxTypeInputs
  /\ \E s \in TypeStrings :
       /\ wtIn' = Append(wtIn, s)
       /\ wtOut' = Append(wtOut, WordType_from_str(s))
  /\ UNCHANGED <<tk, doc, peeked, cur, pc, locals, stack, skip, raised,
                 result>>

NextWordType == FromStr

SpecWordType == InitWordType /\ [][NextWordType]_vars

-----------------------------------------------------------------------------
(* Reading the drawn document, for the properties below.                   *)

(* The direction element k gives from and to once each, with these values, *)
(* in either order, has no other attribute and has a body.                 *)
HasPair(k, f, t) ==
  /\ k.tag = "direction"
  /\ ~k.empty
  /\ Len(k.attrs) = 2
  /\ \E i, j \in 1..2 : k.attrs[i] = <<"from", f>> /\ k.attrs[j] = <<"to", t>>

IsL2E(k) == HasPair(k, "lojban", "English")
IsE2L(k) == HasPair(k, "English", "lojban")

(* A closed direction of the export schema with entries of its kind.       *)
SchemaDirection(k) ==
  /\ k.closed
  /\ \/ IsL2E(k) /\ \A i \in 1..Len(k.entries) : k.entries[i] \in SchemaValsi
     \/ IsE2L(k) /\ \A i \in 1..Len(k.entries) : k.entries[i] \in SchemaNlword

(* The word attribute in the start tag of the element c: the last one, if  *)
(* it is given more than once.                                             *)
WordAttr(c) ==
  LET W == {i \in 2..Len(c) :
              /\ c[i].k = "Attribute" /\ c[i].a = "word"
              /\ \A j \in 2..i : c[j].k = "Attribute"} IN
  c[CHOOSE i \in W : \A j \in W : j <= i].b

WordAttrs(entries) == [i \in 1..Len(entries) |-> WordAttr(entries[i])]
WordsOf(records) == [i \in 1..Len(records) |-> records[i].word]

(* The dictionary element is complete and well formed, without attributes, *)
(* and all its children are directions of the schema.                      *)
SchemaDocument ==
  /\ doc.root = "dictionary"
  /\ doc.dattrs = <<>>
  /\ ~doc.dempty
  /\ doc.closed
  /\ doc.wf
  /\ \A i \in 1..Len(doc.kids) : SchemaDirection(doc.kids[i])

L2EKids == {i \in 1..Len(doc.kids) : IsL2E(doc.kids[i])}
E2LKids == {i \in 1..Len(doc.kids) : IsE2L(doc.kids[i])}
Latest(S) == CHOOSE i \in S : \A j \in S : j <= i

(* One direction of each kind, in either order.                            *)
Conforming ==
  /\ SchemaDocument
  /\ Cardinality(L2EKids) = 1
  /\ Cardinality(E2LKids) = 1
  /\ Len(doc.kids) = 2

-----------------------------------------------------------------------------
(* C1: a document of the schema with one lojban-to-English direction of n  *)
(* valsi and one English-to-lojban direction of m nlword parses to a       *)
(* Dictionary with n and m entries, the i-th entry carrying the word of    *)
(* the i-th element in document order.                                     *)
C1_SchemaDocumentParses ==
  Conforming =>
    LET l == doc.kids[Latest(L2EKids)].entries
        e == doc.kids[Latest(E2LKids)].entries IN
    /\ result.kind = "ok"
    /\ Len(result.l2e) = Len(l)
    /\ Len(result.e2l) = Len(e)
    /\ \A i \in 1..Len(l) : result.l2e[i].word = WordAttr(l[i])
    /\ \A i \in 1..Len(e) : result.e2l[i].word = WordAttr(e[i])

C1_Witness ==
  /\ Conforming
  /\ result.kind = "ok"
  /\ WordsOf(result.l2e) = <<"broda", "klama">>
  /\ result.l2e[1].unofficial /\ ~result.l2e[2].unofficial

-----------------------------------------------------------------------------
(* C2, as amended: when dictionary closes and only one direction was       *)
(* parsed, the result is MissingField of "Dictionary" with the field       *)
(* "lojban to english" or "english to lojban" for the one that is missing; *)
(* a Dictionary is returned only if both directions appeared.              *)
OneDirectionOnly ==
  /\ pc = "done"
  /\ doc.closed
  /\ cur = EndClose("dictionary")
  /\ (lojban_to_english = None) # (english_to_lojban = None)

Appeared(f, t) ==
  \E i \in 1..Len(doc.kids) :
    /\ doc.kids[i].tag = "direction"
    /\ \E a, b \in 1..Len(doc.kids[i].attrs) :
         /\ doc.kids[i].attrs[a] = <<"from", f>>
         /\ doc.kids[i].attrs[b] = <<"to", t>>

-----------------------------------------------------------------------------
(* C3: a self-closing dictionary start tag without attributes ends the     *)
(* parse with MissingField, never with a Dictionary.                       *)
SelfClosingDictionary ==
  /\ doc.root = "dictionary"
  /\ doc.dattrs = <<>>
  /\ doc.dempty
  /\ doc.wf
  /\ pc = "done"

C3_SelfClosingDictionary ==
  SelfClosingDictionary =>
    /\ result = Err(MissingField("Dictionary", "early end"))
    /\ cur = EndEmpty

C3_Witness ==
  SelfClosingDictionary /\ result.err.e = "MissingField" /\ cur = EndEmpty

-----------------------------------------------------------------------------
(* C4: a direction with a body whose from and to, each given at most once  *)
(* and with no other attribute, are not (lojban, English) or (English,     *)
(* lojban) fails the parse once its start tag is read, and nothing of its  *)
(* content is read.                                                        *)
Keys(k) == {k.attrs[i][1] : i \in 1..Len(k.attrs)}

RejectedPair(k) ==
  /\ k.tag = "direction"
  /\ ~k.empty
  /\ Keys(k) \subseteq {"from", "to"}
  /\ Len(k.attrs) = Cardinality(Keys(k))
  /\ ~IsL2E(k)
  /\ ~IsE2L(k)

StartTagRead ==
  doc.wf /\ tk.pending = <<>> /\ peeked = Nothing /\ pc # "dir_till"

C4_OnlyTheTwoPairs ==
  (doc.kids # <<>> /\ RejectedPair(Last(doc.kids)) /\ StartTagRead) =>
    /\ pc = "done"
    /\ result = Err(UnknownField("Dictionary", "unknown direction"))
    /\ cur = EndOpen
    /\ Last(doc.kids).entries = <<>>
    /\ stack = <<>>

C4_Witness ==
  /\ doc.kids # <<>>
  /\ Last(doc.kids).attrs = English2English
  /\ RejectedPair(Last(doc.kids))
  /\ StartTagRead
  /\ result.kind = "err"
  /\ lojban_to_english # None

-----------------------------------------------------------------------------
(* C5: when directions of the same pair repeat, the parse succeeds and     *)
(* each sequence holds exactly the entries of the last direction of its    *)
(* pair.                                                                   *)
BothKinds == SchemaDocument /\ L2EKids # {} /\ E2LKids # {}

C5_LastDirectionWins ==
  BothKinds =>
    /\ result.kind = "ok"
    /\ WordsOf(result.l2e) = WordAttrs(doc.kids[Latest(L2EKids)].entries)
    /\ WordsOf(result.e2l) = WordAttrs(doc.kids[Latest(E2LKids)].entries)

C5_Witness ==
  /\ BothKinds
  /\ result.kind = "ok"
  /\ L2EKids = {1, 3}
  /\ doc.kids[1].entries = <<ValsiKlama>>
  /\ doc.kids[3].entries = <<ValsiBroda>>
  /\ WordsOf(result.l2e) = <<"broda">>

-----------------------------------------------------------------------------
(* C6: from_reader never panics: each reader.next().unwrap() finds a       *)
(* token; until it has returned Ok or Err it can take a further step, and  *)
(* it has returned exactly when it is done.                                *)
C6_NeverPanics ==
  /\ result.kind # "panic"
  /\ (pc = "done") = (result.kind \in {"ok", "err"})
  /\ pc # "done" => ENABLED Next

(* The stream ends right after a direction start tag and its attributes.   *)
C6_Witness ==
  /\ pc = "done"
  /\ result = Err(UnexpectedEof)
  /\ cur = Attribute("to", "English")
  /\ peeked = Eof
  /\ Last(doc.kids).attrs = Lojban2English

-----------------------------------------------------------------------------
(* C7: the first error ends the parse: the error a step raises is what     *)
(* from_reader returns, unchanged; nothing runs after it, and no           *)
(* Dictionary is returned whatever had been parsed before.                 *)
C7_FirstErrorIsReturned ==
  /\ raised # NoErr => pc = "done" /\ result = Err(raised)
  /\ result.kind = "ok" => raised = NoErr
  /\ pc = "done" => ~ENABLED Next

(* A record fails inside the second direction after the first was parsed.  *)
C7_Witness ==
  /\ raised = MissingField("NlWord", "valsi")
  /\ result = Err(raised)
  /\ lojban_to_english # None
  /\ stack # <<>>

-----------------------------------------------------------------------------
(* C9: a child of dictionary that is not direction fails the parse with    *)
(* UnknownField of "Dictionary" naming its tag, wherever it stands; it is  *)
(* not taken off the cursor.                                               *)
StrayChild == doc.kids # <<>> /\ Last(doc.kids).tag # "direction"

C9_UnknownChild ==
  StrayChild =>
    /\ pc = "done"
    /\ result = Err(UnknownField("Dictionary", Last(doc.kids).tag))
    /\ peeked = ElementStart(Last(doc.kids).tag)

(* After two directions that were parsed.                                  *)
C9_Witness ==
  /\ StrayChild
  /\ Len(doc.kids) = 3
  /\ lojban_to_english # None
  /\ english_to_lojban # None
  /\ result = Err(UnknownField("Dictionary", "foo"))

-----------------------------------------------------------------------------
(* C10: an attribute on the dictionary start tag fails the parse with      *)
(* UnknownField of "Dictionary" naming the key of the first attribute,     *)
(* before anything after that attribute is read.                           *)
DictionaryWithAttributes ==
  doc.root = "dictionary" /\ doc.dattrs # <<>> /\ doc.wf

C10_DictionaryAttribute ==
  DictionaryWithAttributes =>
    /\ pc \in {"dict_attr", "done"}
    /\ doc.kids = <<>>
    /\ pc = "done" =>
         /\ result = Err(UnknownField("Dictionary", doc.dattrs[1][1]))
         /\ cur = Attribute(doc.dattrs[1][1], doc.dattrs[1][2])
         /\ tk.pending = Tail(Attrs(doc.dattrs)) \o <<EndOpen>>
            \/ tk.pending = Tail(Attrs(doc.dattrs)) \o <<EndEmpty>>

C10_Witness ==
  /\ DictionaryWithAttributes
  /\ Len(doc.dattrs) = 2
  /\ result = Err(UnknownField("Dictionary", "version"))

-----------------------------------------------------------------------------
(* C8: from_str accepts fourteen strings, one for each of the fourteen     *)
(* variants, and rejects every other string with an error that carries     *)
(* the string as given.  Checked under SpecWordType.                       *)
Accepted == {s \in TypeStrings : WordType_from_str(s).ok}

NearMisses ==
  {"", "Gismu", "GISMU", " gismu", "gismu ", "not-a-type", "fuhivla",
   "experimental-gismu", "zei lujvo", "bu_letteral"}

C8_FromStrVocabulary ==
  /\ Cardinality(Accepted) = Cardinality(WordTypeVariants)
  /\ Cardinality(WordTypeVariants) = 14
  /\ {WordType_from_str(s).val[1] : s \in Accepted} = WordTypeVariants
  /\ \A i \in 1..Len(wtIn) :
       /\ wtOut[i].ok =>
            /\ wtOut[i].val[1] \in WordTypeVariants
            /\ wtIn[i] \notin NearMisses
       /\ ~wtOut[i].ok => wtOut[i].text = wtIn[i] /\ wtOut[i].val = None
       /\ wtIn[i] \in TypeStrings \ NearMisses => wtOut[i].ok
       /\ \A j \in 1..Len(wtIn) :
            (wtOut[i].ok /\ wtOut[j].ok /\ wtOut[i].val = wtOut[j].val)
              => wtIn[i] = wtIn[j]

C8_Witness ==
  /\ wtIn = <<"fu'ivla", " gismu">>
  /\ wtOut[1] = Parsed("Fuhivla")
  /\ wtOut[2] = Rejected(" gismu")

-----------------------------------------------------------------------------
(* C11: the attributes of direction are read in any order: once the start  *)
(* tag's attributes are read, from and to hold the values given for them   *)
(* whichever came first, and a direction with to before from is parsed     *)
(* like one with from before to; the first attribute with another key      *)
(* fails the parse with UnknownField of "direction" naming that key, and   *)
(* no other attribute does.                                                *)
ValueOf(attrs, key) ==
  LET S == {i \in 1..Len(attrs) : attrs[i][1] = key} IN
  IF S = {} THEN None ELSE Some(attrs[Latest(S)][2])

UnknownKeys(k) == {i \in 1..Len(k.attrs) : k.attrs[i][1] \notin {"from", "to"}}

First(S) == CHOOSE i \in S : \A j \in S : i <= j

InsideDirection ==
  pc \in {"dir_end", "dir_child", "rec_till", "rec_attr", "rec_end",
          "rec_child", "rec_open", "rec_text"}

C11_DirectionAttributes ==
  (doc.kids # <<>> /\ Last(doc.kids).tag = "direction") =>
    LET k == Last(doc.kids)
        U == UnknownKeys(k) IN
    /\ InsideDirection =>
         /\ U = {}
         /\ from = ValueOf(k.attrs, "from")
         /\ to = ValueOf(k.attrs, "to")
    /\ (U # {} /\ doc.wf) =>
         /\ pc \in {"dir_till", "dir_attr", "done"}
         /\ pc = "done" =>
              /\ result = Err(UnknownField("direction", k.attrs[First(U)][1]))
              /\ cur = Attribute(k.attrs[First(U)][1], k.attrs[First(U)][2])
    /\ (result.err.e = "UnknownField" /\ result.err.name = "direction") =>
         U # {}
    /\ (IsL2E(k) /\ k.closed /\ doc.wf /\ pc = "dict_child") =>
         /\ lojban_to_english # None
         /\ WordsOf(lojban_to_english[1]) = WordAttrs(k.entries)

(* to came before from, and the direction was parsed.                      *)
C11_Witness ==
  /\ Len(doc.kids) = 1
  /\ doc.kids[1].attrs = << <<"to", "English">>, <<"from", "lojban">> >>
  /\ doc.kids[1].closed
  /\ pc = "dict_child"
  /\ lojban_to_english # None
  /\ WordsOf(lojban_to_english[1]) = <<"klama">>

-----------------------------------------------------------------------------
(* C12: a self-closing direction (with no attribute other than from and    *)
(* to) fails the parse with MissingField once its start tag is read; it    *)
(* never counts as a direction that appeared: no Dictionary is returned    *)
(* for a document that has one, and a sequence is set only by a direction  *)
(* with a body that was closed.                                            *)
SelfClosingDirection(k) ==
  k.tag = "direction" /\ k.empty /\ UnknownKeys(k) = {}

WithBody(f, t) ==
  \E i \in 1..Len(doc.kids) :
    /\ doc.kids[i].tag = "direction"
    /\ ~doc.kids[i].empty
    /\ doc.kids[i].closed
    /\ ValueOf(doc.kids[i].attrs, "from") = Some(f)
    /\ ValueOf(doc.kids[i].attrs, "to") = Some(t)

C12_SelfClosingDirection ==
  /\ (doc.kids # <<>> /\ SelfClosingDirection(Last(doc.kids)) /\ StartTagRead)
       => /\ pc = "done"
          /\ result = Err(MissingField("direction", "early end"))
          /\ cur = EndEmpty
  /\ result.kind = "ok" =>
       \A i \in 1..Len(doc.kids) : ~doc.kids[i].empty
  /\ lojban_to_english # None => WithBody("lojban", "English")
  /\ english_to_lojban # None => WithBody("English", "lojban")

(* A self-closing lojban-to-English direction after a parsed English-to-   *)
(* lojban one.                                                             *)
C12_Witness ==
  /\ Len(doc.kids) = 2
  /\ Last(doc.kids).attrs = Lojban2English
  /\ SelfClosingDirection(Last(doc.kids))
  /\ StartTagRead
  /\ english_to_lojban # None
  /\ lojban_to_english = None
  /\ result.err.field = "early end"

-----------------------------------------------------------------------------
(* C13: in a lojban-to-English direction a child that is not valsi, and in *)
(* an English-to-lojban direction a child that is not nlword, fails the    *)
(* parse with an error naming the expected tag; the child is left on the   *)
(* cursor, no record parse is begun for it, and the entries before it are  *)
(* the words collected.  A record parse is begun only for the expected     *)
(* tag.                                                                    *)
Expected(k) == IF IsL2E(k) THEN "valsi" ELSE "nlword"

WrongChild(k) ==
  /\ IsL2E(k) \/ IsE2L(k)
  /\ k.entries # <<>>
  /\ Head(Last(k.entries)).a # Expected(k)

C13_WrongChildOfDirection ==
  /\ (doc.kids # <<>> /\ WrongChild(Last(doc.kids)) /\ doc.wf) =>
       LET k == Last(doc.kids) IN
       /\ pc = "done"
       /\ result.err.e = "MissingField"
       /\ result.err.field = Expected(k)
       /\ result.err.name = IF IsL2E(k) THEN "lojban-to-english"
                            ELSE "english-to-lojban"
       /\ peeked = Head(Last(k.entries))
       /\ stack = <<>>
       /\ WordsOf(words) = WordAttrs(SubSeq(k.entries, 1, Len(k.entries) - 1))
  /\ (stack # <<>> /\ doc.kids # <<>>
        /\ (IsL2E(Last(doc.kids)) \/ IsE2L(Last(doc.kids)))) =>
       stack[1].tag = Expected(Last(doc.kids))

(* An nlword after a valsi in the lojban-to-English direction.             *)
C13_Witness ==
  /\ doc.kids # <<>>
  /\ IsL2E(Last(doc.kids))
  /\ Last(doc.kids).entries = <<ValsiKlama, NlGo>>
  /\ result = Err(MissingField("lojban-to-english", "valsi"))
  /\ WordsOf(words) = <<"klama">>

-----------------------------------------------------------------------------
(* C14: when from_reader returns a Dictionary the cursor stands right      *)
(* after the dictionary element: the last token taken is its closing tag,  *)
(* every token of the element drawn before it was taken (none is left      *)
(* pending or peeked), every child was closed, and the tokenizer was not   *)
(* asked for anything after the closing tag.                               *)
C14_CursorAfterDictionary ==
  result.kind = "ok" =>
    /\ cur = EndClose("dictionary")
    /\ peeked = Nothing
    /\ tk.pending = <<>>
    /\ tk.mode = "epilog"
    /\ doc.root = "dictionary"
    /\ doc.closed
    /\ doc.wf
    /\ \A i \in 1..Len(doc.kids) : doc.kids[i].closed

C14_Witness ==
  /\ result.kind = "ok"
  /\ cur = EndClose("dictionary")
  /\ tk.mode = "epilog"
  /\ Len(doc.kids) = 3
  /\ Len(result.l2e) = 1
  /\ Len(result.e2l) = 1

-----------------------------------------------------------------------------
(* C15, as stated: an element that gives a required field twice is not     *)
(* accepted: no Dictionary is returned for a document in which a           *)
(* direction gives from or to twice, or an entry gives one of its          *)
(* attributes twice.  The code overwrites the earlier value (line 72:      *)
(* from = Some(value)), so this does not hold.                             *)
Twice(attrs) ==
  \E i, j \in 1..Len(attrs) : i < j /\ attrs[i][1] = attrs[j][1]

(* The attributes in the start tag of the element c, as (key, value).      *)
StartTagAttrs(c) ==
  LET n == CHOOSE m \in 1..Len(c) :
             /\ c[m].k # "Attribute"
             /\ \A j \in 2..(m - 1) : c[j].k = "Attribute"
             /\ m > 1
  IN [i \in 1..(n - 2) |-> <<c[i + 1].a, c[i + 1].b>>]

C15_Original ==
  result.kind = "ok" =>
    \A i \in 1..Len(doc.kids) :
      /\ ~Twice(doc.kids[i].attrs)
      /\ \A e \in 1..Len(doc.kids[i].entries) :
           ~Twice(StartTagAttrs(doc.kids[i].entries[e]))

(* What the code does instead: from given twice, the later value counts    *)
(* and the direction is parsed.                                            *)
C15_Witness ==
  /\ result.kind = "ok"
  /\ doc.kids[1].attrs =
       << <<"from", "English">>, <<"from", "lojban">>, <<"to", "English">> >>
  /\ Len(doc.kids) = 2
  /\ WordsOf(result.l2e) = <<"klama">>

(* word given twice on nlword: the record carries the later value.         *)
C15_WitnessRecord ==
  /\ result.kind = "ok"
  /\ Len(doc.kids) = 2
  /\ doc.kids[2].entries = <<NlTwoWords>>
  /\ WordsOf(result.e2l) = <<"went">>

-----------------------------------------------------------------------------
(* C16, as amended: in each of the five records an attribute or a child   *)
(* element that the record does not declare fails the parse with           *)
(* UnknownField whose name is the name of the record's struct (Word,       *)
(* NlWord, User, GlossWord, Keyword) and whose field is the offending      *)
(* name; the parse does not go on after it.                                *)
UnknownCases ==
  {<<BadAttr(t), t>> : t \in {"valsi", "nlword"}}
    \cup {<<BadChild(t), t>> : t \in {"valsi", "nlword"}}
    \cup {<<Inside(BadAttr(t)), t>> : t \in {"user", "keyword", "glossword"}}
    \cup {<<Inside(BadChild(t)), t>> : t \in {"user", "keyword", "glossword"}}

(* How the error names the record with tag `tag`: by the struct declared   *)
(* for it at lines 148, 163, 196, 208 and 218, or by the tag itself.       *)
ByStruct(tag) ==
  CASE tag = "valsi" -> "Word"
    [] tag = "nlword" -> "NlWord"
    [] tag = "user" -> "User"
    [] tag = "glossword" -> "GlossWord"
    [] tag = "keyword" -> "Keyword"

ByTag(tag) == tag

(* The last entry drawn is the element c of the expected tag, and the      *)
(* tokenizer has delivered all of it but its last token.                   *)
AtLastEntry(rest) ==
  /\ tk.pending = rest
  /\ doc.wf
  /\ doc.kids # <<>>
  /\ Last(doc.kids).entries # <<>>
  /\ IsL2E(Last(doc.kids)) \/ IsE2L(Last(doc.kids))
  /\ Head(Last(Last(doc.kids).entries)).a = Expected(Last(doc.kids))

LastEntry == Last(Last(doc.kids).entries)

LastEntryUpTo(c, rest) == AtLastEntry(rest) /\ LastEntry = c

Undeclared(tag, name) ==
  \/ /\ cur = Attribute(name, cur.b)
     /\ peeked = Nothing
     /\ Declared(tag, {"attr"}, name) = {}
  \/ /\ peeked = ElementStart(name)
     /\ Declared(tag, {"text", "child"}, name) = {}

UnknownInRecord(Name(_)) ==
  /\ AtLastEntry(<<EndEmpty>>) =>
       \A u \in UnknownCases :
         LastEntry = u[1] =>
           /\ pc = "done"
           /\ result = Err(UnknownField(Name(u[2]), "foo"))
           /\ Top.tag = u[2]
  /\ (result.err.e = "UnknownField" /\ stack # <<>>) =>
       /\ result.err.name = Name(Top.tag)
       /\ Undeclared(Top.tag, result.err.field)
  /\ (stack # <<>> /\ pc \in {"rec_attr", "rec_end", "rec_child"}) =>
       /\ cur.k = "Attribute" => Declared(Top.tag, {"attr"}, cur.a) # {}
       /\ peeked.k # "ElementStart"

C16_UnknownInRecord == UnknownInRecord(ByStruct)

(* An undeclared child of user, inside a valsi.                            *)
C16_Witness ==
  /\ LastEntryUpTo(Inside(BadChild("user")), <<EndEmpty>>)
  /\ result = Err(UnknownField("User", "foo"))
  /\ Len(stack) = 2

(* C16 as stated: the error names the record by its tag.                   *)
C16_Original == UnknownInRecord(ByTag)

-----------------------------------------------------------------------------
(* C17, as amended: a record whose element closes with a required          *)
(* attribute or child not seen fails the parse with MissingField whose     *)
(* name is the name of the record's struct and whose field is the name of  *)
(* the struct's field (ty for type, definition_id for definitionid, else   *)
(* the XML name); an optional field not given has no value, a sequence     *)
(* field not given is empty, and unofficial not given is false.            *)
MissingCases ==
  {<<Bare("valsi"), "valsi", "word">>,
   <<ValsiWordOnly, "valsi", "type">>,
   <<ValsiNoUser, "valsi", "user">>,
   <<ValsiNoDefinition, "valsi", "definition">>,
   <<ValsiNoDefinitionId, "valsi", "definitionid">>,
   <<Bare("nlword"), "nlword", "word">>,
   <<NlNoValsi, "nlword", "valsi">>,
   <<Inside(Bare("keyword")), "keyword", "word">>,
   <<KeywordNoPlace, "keyword", "place">>,
   <<Inside(Bare("glossword")), "glossword", "word">>,
   <<Inside(Bare("user")), "user", "username">>}

(* How the error names the field given in XML as `xml`: by the field of    *)
(* the struct (lines 168 and 182), or by the XML name itself.              *)
ByIdent(xml) ==
  CASE xml = "type" -> "ty"
    [] xml = "definitionid" -> "definition_id"
    [] OTHER -> xml

ByXml(xml) == xml

RequiredXml(tag) ==
  CASE tag = "valsi" -> {"word", "type", "user", "definition", "definitionid"}
    [] tag = "nlword" -> {"word", "valsi"}
    [] tag = "keyword" -> {"word", "place"}
    [] tag = "glossword" -> {"word"}
    [] tag = "user" -> {"username"}

MissingInRecord(Name(_), Field(_)) ==
  /\ (peeked = Nothing /\ AtLastEntry(<<>>)) =>
       \A m \in MissingCases :
         LastEntry = m[1] =>
           /\ pc = "done"
           /\ result = Err(MissingField(Name(m[2]), Field(m[3])))
           /\ Top.tag = m[2]
  /\ (result.err.e = "MissingField" /\ stack # <<>>) =>
       /\ result.err.name = Name(Top.tag)
       /\ result.err.field \in {Field(x) : x \in RequiredXml(Top.tag)}
       /\ cur \in {EndEmpty, EndClose(Top.tag)}

AbsentFields ==
  BothKinds =>
    LET l == doc.kids[Latest(L2EKids)].entries
        e == doc.kids[Latest(E2LKids)].entries IN
    /\ \A i \in 1..Len(l) :
         /\ l[i] = ValsiKlama =>
              /\ result.l2e[i].unofficial = FALSE
              /\ result.l2e[i].selmaho = None
              /\ result.l2e[i].notes = None
              /\ result.l2e[i].rafsi = <<>>
              /\ result.l2e[i].glosses = <<>>
              /\ result.l2e[i].keywords = <<>>
              /\ result.l2e[i].user.realname = None
         /\ l[i] = ValsiBroda =>
              /\ result.l2e[i].unofficial = TRUE
              /\ result.l2e[i].rafsi = <<"rod">>
              /\ result.l2e[i].definition_id = 42
              /\ Len(result.l2e[i].keywords) = 1
    /\ \A i \in 1..Len(e) :
         /\ e[i] = NlGo =>
              result.e2l[i].sense = None /\ result.e2l[i].place = None
         /\ e[i] = NlThing =>
              /\ result.e2l[i].sense = Some("object")
              /\ result.e2l[i].place = Some(1)

C17_MissingInRecord == MissingInRecord(ByStruct, ByIdent) /\ AbsentFields

(* A valsi that closes without definitionid.                               *)
C17_Witness ==
  /\ LastEntryUpTo(ValsiNoDefinitionId, <<>>)
  /\ cur = EndClose("valsi")
  /\ result = Err(MissingField("Word", "definition_id"))

(* C17 as stated: the error names the record by its tag and the field by   *)
(* its XML name.                                                           *)
C17_Original == MissingInRecord(ByTag, ByXml) /\ AbsentFields

-----------------------------------------------------------------------------
(* C18: the checks on a direction come in the order unknown attribute,     *)
(* self-closing start tag, pair: a self-closing direction whose pair is    *)
(* invalid or incomplete is reported as MissingField "early end" of        *)
(* "direction", a direction with an unknown attribute is reported as       *)
(* UnknownField of that attribute whatever its pair and its end, and       *)
(* "unknown direction" is reported only for a start tag without unknown    *)
(* attribute that is not self-closing.                                     *)
InvalidPair(k) ==
  LET f == ValueOf(k.attrs, "from")
      t == ValueOf(k.attrs, "to") IN
  /\ ~(f = Some("lojban") /\ t = Some("English"))
  /\ ~(f = Some("English") /\ t = Some("lojban"))

C18_OrderOfChecks ==
  (doc.kids # <<>> /\ Last(doc.kids).tag = "direction" /\ doc.wf) =>
    LET k == Last(doc.kids)
        U == UnknownKeys(k) IN
    /\ (k.empty /\ U = {} /\ InvalidPair(k) /\ StartTagRead) =>
         result = Err(MissingField("direction", "early end"))
    /\ (U # {} /\ InvalidPair(k) /\ pc = "done") =>
         result = Err(UnknownField("direction", k.attrs[First(U)][1]))
    /\ result = Err(UnknownField("Dictionary", "unknown direction")) =>
         U = {} /\ ~k.empty /\ cur = EndOpen /\ InvalidPair(k)
    /\ result = Err(MissingField("direction", "early end")) =>
         U = {} /\ k.empty /\ cur = EndEmpty

(* A self-closing direction from English to English.                       *)
C18_Witness ==
  /\ doc.kids # <<>>
  /\ Last(doc.kids).attrs = English2English
  /\ Last(doc.kids).empty
  /\ StartTagRead
  /\ result = Err(MissingField("direction", "early end"))

(* An unknown attribute before an invalid pair.                            *)
C18_WitnessUnknownAttribute ==
  /\ doc.kids # <<>>
  /\ Last(doc.kids).attrs =
       << <<"lang", "en">>, <<"from", "English">>, <<"to", "English">> >>
  /\ result = Err(UnknownField("direction", "lang"))

-----------------------------------------------------------------------------
(* C19: a direction of a valid pair with an opening and a closing tag and  *)
(* no child element counts as present: when it closes, its sequence is     *)
(* set to the empty sequence, and a document whose two directions are      *)
(* both of this kind parses to a Dictionary with two empty sequences.      *)
EmptyBody(k) == ~k.empty /\ k.closed /\ k.entries = <<>>

C19_EmptyDirectionIsPresent ==
  /\ (doc.kids # <<>> /\ EmptyBody(Last(doc.kids)) /\ doc.wf
        /\ pc = "dict_child") =>
       /\ IsL2E(Last(doc.kids)) => lojban_to_english = Some(<<>>)
       /\ IsE2L(Last(doc.kids)) => english_to_lojban = Some(<<>>)
  /\ (Conforming /\ EmptyBody(doc.kids[1]) /\ EmptyBody(doc.kids[2])) =>
       result = Ok(<<>>, <<>>)

C19_Witness ==
  /\ Conforming
  /\ EmptyBody(doc.kids[1])
  /\ EmptyBody(doc.kids[2])
  /\ result = Ok(<<>>, <<>>)
  /\ lojban_to_english = Some(<<>>)
  /\ english_to_lojban = Some(<<>>)

-----------------------------------------------------------------------------
(* C20: the result does not depend on the order of the two directions: a   *)
(* document with one direction of each pair parses to the Dictionary       *)
(* whose lojban_to_english holds the records of the lojban-to-English      *)
(* direction's entries and whose english_to_lojban holds those of the      *)
(* English-to-lojban direction's entries, whichever of the two comes       *)
(* first, so swapping the two elements gives the same Dictionary.          *)
Mupli == [username |-> "mupli", realname |-> None]

(* The record each element of the schema stands for.                       *)
RecordOf(c) ==
  CASE c = ValsiKlama ->
         [word |-> "klama", ty |-> "Gismu", unofficial |-> FALSE,
          rafsi |-> <<>>, selmaho |-> None, user |-> Mupli,
          definition |-> "x1 comes", definition_id |-> 1, notes |-> None,
          glosses |-> <<>>, keywords |-> <<>>]
    [] c = ValsiBroda ->
         [word |-> "broda", ty |-> "ExperimentalGismu", unofficial |-> TRUE,
          rafsi |-> <<"rod">>, selmaho |-> None, user |-> Mupli,
          definition |-> "x1 is a thing", definition_id |-> 42,
          notes |-> None, glosses |-> <<>>,
          keywords |-> <<[word |-> "thing", place |-> 1, sense |-> None]>>]
    [] c = NlGo ->
         [word |-> "go", sense |-> None, place |-> None, valsi |-> "klama"]
    [] c = NlThing ->
         [word |-> "thing", sense |-> Some("object"), place |-> Some(1),
          valsi |-> "broda"]

RecordsOf(entries) == [i \in 1..Len(entries) |-> RecordOf(entries[i])]

ExpectedDictionary(valsi, nlword) == Ok(RecordsOf(valsi), RecordsOf(nlword))

C20_OrderOfDirections ==
  Conforming =>
    /\ (IsL2E(doc.kids[1]) /\ IsE2L(doc.kids[2])) =>
         result = ExpectedDictionary(doc.kids[1].entries, doc.kids[2].entries)
    /\ (IsE2L(doc.kids[1]) /\ IsL2E(doc.kids[2])) =>
         result = ExpectedDictionary(doc.kids[2].entries, doc.kids[1].entries)

(* The English-to-lojban direction comes first.                            *)
C20_Witness ==
  /\ Conforming
  /\ IsE2L(doc.kids[1])
  /\ IsL2E(doc.kids[2])
  /\ doc.kids[1].entries = <<NlThing>>
  /\ doc.kids[2].entries = <<ValsiBroda>>
  /\ result = ExpectedDictionary(<<ValsiBroda>>, <<NlThing>>)

(* The same two directions in the other order.                             *)
C20_WitnessSwapped ==
  /\ Conforming
  /\ IsL2E(doc.kids[1])
  /\ IsE2L(doc.kids[2])
  /\ doc.kids[2].entries = <<NlThing>>
  /\ doc.kids[1].entries = <<ValsiBroda>>
  /\ result = ExpectedDictionary(<<ValsiBroda>>, <<NlThing>>)

====
